---- MODULE Spec2Model ----
(***************************************************************************)
(* py-mock-docker-registry: token issue / validation                       *)
(* (mock_docker_registry/auth), scope matching, Digest validation and      *)
(* DockerImageReference construction / formatting / parsing                *)
(* (mock_docker_registry/models/repository).                               *)
(*                                                                         *)
(* Python values are modelled as follows.                                  *)
(*   str            a TLA+ string (Len, \o and SubSeq work on strings)     *)
(*   JSON value     [k |-> kind, v |-> payload], kind one of "str", "int", *)
(*                  "list" (payload a sequence), "dict" (payload a record  *)
(*                  whose DOMAIN is the set of keys present)               *)
(*   datetime       [naive |-> BOOLEAN, wall |-> seconds]: for a naive     *)
(*                  value wall is the wall-clock reading counted in        *)
(*                  seconds as if it were UTC; for an aware value it is    *)
(*                  the instant                                            *)
(*   call outcome   Return(value) or Raise(exception class name)           *)
(***************************************************************************)
EXTENDS Integers, Sequences, FiniteSets, TLC

VARIABLES
    now,        \* the real clock: seconds since the Unix epoch (UTC)
    utcoffset,  \* the host's local time zone: local time = UTC + utcoffset
    token,      \* the encoded token last produced or presented
    minted,     \* the create_token call that produced `token`, if any
    ref,        \* the DockerImageReference object last constructed
    call,       \* the last call made: its name and arguments
    ret         \* the outcome of the last call

vars == <<now, utcoffset, token, minted, ref, call, ret>>

(***************************************************************************)
(* Bounds of the model                                                     *)
(***************************************************************************)
Now0 == 1700000000
MaxElapsed == 2
MaxDrift == 1

(***************************************************************************)
(* Outcomes and JSON values                                                *)
(***************************************************************************)
Return(x) == [k |-> "return", v |-> x]
Raise(e) == [k |-> "raise", v |-> e]
None == [k |-> "None", v |-> ""]
IsNone(x) == x.k = "None"
Returned(o) == o.k = "return"
Raised(o, e) == o.k = "raise" /\ o.v = e

JStr(s) == [k |-> "str", v |-> s]
JInt(n) == [k |-> "int", v |-> n]
JList(l) == [k |-> "list", v |-> l]
JDict(d) == [k |-> "dict", v |-> d]

NoCall == [op |-> "none"]
NoToken == [k |-> "none"]
NoMint == [k |-> "none"]
NoRef == [k |-> "none"]

(***************************************************************************)
(* models/auth.py                                                          *)
(***************************************************************************)
ResourceType == {"registry", "repository"}
ResourceAction == {"push", "pull", "list"}

\* TokenAccess(**d).dict(): the three declared fields of one access entry.
TokenAccess(d) ==
    JDict([type |-> d.v.type, name |-> d.v.name, actions |-> d.v.actions])

(***************************************************************************)
(* config/auth.py (imported by auth/generate.py and auth/validate.py)      *)
(***************************************************************************)
ISSUER == "mock-docker-registry"
AUDIENCE == "mock-docker-registry-clients"
DEFAULT_TOKEN_VALIDITY_PERIOD == 900

(***************************************************************************)
(* datetime                                                                *)
(***************************************************************************)
Naive(w) == [naive |-> TRUE, wall |-> w]
Aware(t) == [naive |-> FALSE, wall |-> t]

\* datetime.utcnow() read when the clock shows t: a naive datetime holding
\* the UTC wall-clock reading.
utcnow(t) == Naive(t)

\* datetime.fromtimestamp(n): a naive datetime holding the local reading.
fromtimestamp(n) == Naive(n + utcoffset)

\* dt + timedelta(seconds = d)
PlusSeconds(dt, d) == [dt EXCEPT !.wall = @ + d]

\* int(dt.timestamp()): a naive datetime is taken to be local time.
timestamp(dt) == IF dt.naive THEN dt.wall - utcoffset ELSE dt.wall

\* now_plus(delta) called when the clock shows t.
now_plus(t, delta) == PlusSeconds(utcnow(t), delta)

(***************************************************************************)
(* str helpers                                                             *)
(***************************************************************************)
CharAt(s, i) == SubSeq(s, i, i)

\* s.split(sep) for a one-character sep: the pieces between the separators,
\* empty pieces kept ("".split(":") is [""]).
RECURSIVE SplitFrom(_, _, _, _)
SplitFrom(s, sep, i, cur) ==
    IF i > Len(s) THEN <<cur>>
    ELSE IF CharAt(s, i) = sep THEN <<cur>> \o SplitFrom(s, sep, i + 1, "")
    ELSE SplitFrom(s, sep, i + 1, cur \o CharAt(s, i))

Split(s, sep) == SplitFrom(s, sep, 1, "")

\* sep.join(parts)
RECURSIVE Join(_, _)
Join(parts, sep) ==
    IF Len(parts) = 0 THEN ""
    ELSE IF Len(parts) = 1 THEN parts[1]
    ELSE parts[1] \o sep \o Join(Tail(parts), sep)

Digits == <<"0", "1", "2", "3", "4", "5", "6", "7", "8", "9">>
IsDigit(c) == \E d \in 1..10 : Digits[d] = c
DigitValue(c) == (CHOOSE d \in 1..10 : Digits[d] = c) - 1
AllDigits(s) == Len(s) > 0 /\ \A i \in 1..Len(s) : IsDigit(CharAt(s, i))

\* int(s) / float(s) of a string of decimal digits.
RECURSIVE ParseInt(_)
ParseInt(s) ==
    IF Len(s) = 0 THEN 0
    ELSE 10 * ParseInt(SubSeq(s, 1, Len(s) - 1)) + DigitValue(CharAt(s, Len(s)))

\* str(n) of an int n >= 0.
RECURSIVE IntToStr(_)
IntToStr(n) ==
    IF n < 10 THEN Digits[n + 1]
    ELSE IntToStr(n \div 10) \o Digits[(n % 10) + 1]

(***************************************************************************)
(* auth/generate.py                                                        *)
(***************************************************************************)
OneYear == 60 * 60 * 24 * 365

\* pydantic.datetime_parse.parse_datetime on a str: a string of digits is a
\* Unix time and gives an aware UTC datetime; a string that is no date at
\* all raises DateTimeError.
parse_datetime(s) ==
    IF AllDigits(s) THEN Return(Aware(ParseInt(s))) ELSE Raise("DateTimeError")

\* create_token(subject, access, expiration), lines 41-52: the expiration
\* argument resolved to a datetime; t is the clock when now_plus reads it.
ResolveExpiration(expiration, t) ==
    CASE expiration.k = "None" ->
           Return(now_plus(t, DEFAULT_TOKEN_VALIDITY_PERIOD))
      [] expiration.k = "int" ->
           IF expiration.v < OneYear
           THEN Return(now_plus(t, expiration.v))
           ELSE Return(fromtimestamp(expiration.v))
      [] expiration.k = "timedelta" -> Return(now_plus(t, expiration.v))
      [] expiration.k = "str" -> parse_datetime(expiration.v)
      [] expiration.k = "datetime" -> Return(expiration.v)

\* TokenData(...), lines 52-59; issued is read from the clock at t2.
TokenData(subject, access, expiration, t2) ==
    [subject |-> subject,
     access |-> [i \in 1..Len(access.v) |-> TokenAccess(access.v[i])],
     issuer |-> ISSUER,
     audience |-> AUDIENCE,
     expiration |-> expiration,
     issued |-> utcnow(t2)]

\* create_token(token_data), lines 64-78: the claims that are signed.
Claims(token_data) ==
    JDict([iss |-> JStr(token_data.issuer),
           sub |-> JStr(token_data.subject),
           aud |-> JStr(token_data.audience),
           exp |-> JInt(timestamp(token_data.expiration)),
           iat |-> JInt(timestamp(token_data.issued)),
           nbf |-> JInt(timestamp(PlusSeconds(token_data.issued, -5))),
           access |-> JList(token_data.access)])

\* create_jwt(data): "exp" is always among the claims create_token passes,
\* so the claims are signed as they are. A token is its claims and whether
\* its signature segment is the HMAC of them under SECRET_KEY.
create_jwt(data) == [k |-> "jwt", claims |-> data, sig |-> "ok"]

\* create_token(subject, access, expiration): t1 is the clock at the
\* now_plus reading, t2 the clock at the later utcnow() reading of `issued`.
create_token(subject, access, expiration, t1, t2) ==
    LET e == ResolveExpiration(expiration, t1)
    IN  IF e.k = "raise" THEN e
        ELSE Return(create_jwt(Claims(TokenData(subject, access, e.v, t2))))

(***************************************************************************)
(* auth/validate.py                                                        *)
(***************************************************************************)

\* jose.jwt.decode(encoded_token, SECRET_KEY, algorithms, audience, issuer)
\* as get_token_data calls it when the clock shows t: the signature is
\* verified first (JWTError for a malformed token or a signature that does
\* not verify), then the claims nbf, exp, aud, iss in that order
\* (JWTClaimsError, ExpiredSignatureError for exp < now).
jwt_decode(encoded_token, t) ==
    IF encoded_token.k # "jwt" THEN Raise("JWTError")
    ELSE IF encoded_token.sig # "ok" THEN Raise("JWTError")
    ELSE LET c == encoded_token.claims.v
         IN  IF c.nbf.v > t THEN Raise("JWTClaimsError")
             ELSE IF c.exp.v < t THEN Raise("ExpiredSignatureError")
             ELSE IF c.aud.v # AUDIENCE THEN Raise("JWTClaimsError")
             ELSE IF c.iss.v # ISSUER THEN Raise("JWTClaimsError")
             ELSE Return(encoded_token.claims)

\* get_token_data: only ExpiredSignatureError is caught.
get_token_data(encoded_token, t) ==
    LET d == jwt_decode(encoded_token, t)
    IN  IF Raised(d, "ExpiredSignatureError") THEN Return(None) ELSE d

\* scope_is_allowed(scope: ThrupleStr, access): a faulty variant that stops at the
\* first entry of the same type and name.
scope_is_allowed_first_entry(scope, access) ==
    LET same == {i \in 1..Len(access) :
                    /\ access[i].v.type.v = scope[1]
                    /\ access[i].v.name.v = scope[2]}
    IN  /\ same # {}
        /\ LET first == CHOOSE i \in same : \A j \in same : i <= j
           IN  \E a \in 1..Len(access[first].v.actions.v) :
                   access[first].v.actions.v[a].v = scope[3]

scope_is_allowed(scope, access) ==
    \E i \in 1..Len(access) :
        /\ access[i].v.type.v = scope[1]
        /\ access[i].v.name.v = scope[2]
        /\ \E a \in 1..Len(access[i].v.actions.v) :
               access[i].v.actions.v[a].v = scope[3]

\* scope_is_allowed(scope: ThrupleStrL, access)
scope_is_allowed_list(scope, access) ==
    \A i \in 1..Len(scope) : scope_is_allowed(scope[i], access)

\* The asserts of validate_token_data(data: dict) on one element of access;
\* a missing key is the KeyError the function catches. A faulty variant leaves
\* out the membership test of the actions.
AccessScopeValid_any_action(scope) ==
    /\ scope.k = "dict"
    /\ "type" \in DOMAIN scope.v
    /\ scope.v.type.k = "str"
    /\ scope.v.type.v \in ResourceType
    /\ "name" \in DOMAIN scope.v
    /\ scope.v.name.k = "str"
    /\ "actions" \in DOMAIN scope.v
    /\ scope.v.actions.k = "list"
    /\ \A a \in 1..Len(scope.v.actions.v) : scope.v.actions.v[a].k = "str"

AccessScopeValid(scope) ==
    /\ scope.k = "dict"
    /\ "type" \in DOMAIN scope.v
    /\ scope.v.type.k = "str"
    /\ scope.v.type.v \in ResourceType
    /\ "name" \in DOMAIN scope.v
    /\ scope.v.name.k = "str"
    /\ "actions" \in DOMAIN scope.v
    /\ scope.v.actions.k = "list"
    /\ \A a \in 1..Len(scope.v.actions.v) :
           /\ scope.v.actions.v[a].k = "str"
           /\ scope.v.actions.v[a].v \in ResourceAction

\* validate_token_data(data: dict)
validate_token_data_dict(data) ==
    IF /\ "access" \in DOMAIN data.v
       /\ data.v.access.k = "list"
       /\ \A i \in 1..Len(data.v.access.v) : AccessScopeValid(data.v.access.v[i])
    THEN Return(data)
    ELSE Return(None)

\* validate_token_data(data: str)
validate_token_data_str(data, t) ==
    LET d == get_token_data(data, t)
    IN  IF d.k = "raise" THEN d
        ELSE IF IsNone(d.v) THEN Return(None)
        ELSE validate_token_data_dict(d.v)

\* validate_token_data(data) as the two-argument overloads call it: data is
\* an encoded token (str) or decoded claims (dict).
validate_token_data_1(data, t) ==
    IF data.k = "dict" THEN validate_token_data_dict(data)
    ELSE validate_token_data_str(data, t)

\* validate_token_data(data, scope: ThrupleStrU)
validate_token_data_scope(data, scope, t) ==
    LET d == validate_token_data_1(data, t)
    IN  IF d.k = "raise" THEN d
        ELSE IF IsNone(d.v) THEN Return(None)
        ELSE IF scope_is_allowed_list(scope, d.v.v.access.v) THEN d
        ELSE Return(None)

\* The scope-string loop of validate_token_data(data, scope: str), lines
\* 88-96: the triples, or the ValueError of the first short token. The
\* faulty variant takes the second field alone as the name.
ScopeTriple_second_field(scope_) ==
    LET scope_parts == Split(scope_, ":")
    IN  <<scope_parts[1], scope_parts[2], scope_parts[Len(scope_parts)]>>

ScopeTriple(scope_) ==
    LET scope_parts == Split(scope_, ":")
    IN  <<scope_parts[1],
          Join(SubSeq(scope_parts, 2, Len(scope_parts) - 1), ":"),
          scope_parts[Len(scope_parts)]>>

ParseScopes(scope) ==
    LET toks == Split(scope, " ")
    IN  IF \E i \in 1..Len(toks) : Len(Split(toks[i], ":")) < 3
        THEN Raise("ValueError")
        ELSE Return([i \in 1..Len(toks) |-> ScopeTriple(toks[i])])

\* validate_token_data(data, scope: str)
validate_token_data_scope_str(data, scope, t) ==
    LET scopes == ParseScopes(scope)
    IN  IF scopes.k = "raise" THEN scopes
        ELSE validate_token_data_scope(data, scopes.v, t)

(***************************************************************************)
(* Inputs                                                                  *)
(***************************************************************************)
Subjects == {"alice"}

Strs(l) == [i \in 1..Len(l) |-> JStr(l[i])]
Entry(type, name, actions) ==
    JDict([type |-> JStr(type), name |-> JStr(name),
           actions |-> JList(Strs(actions))])

\* Well-formed access grants (List[dict] arguments of create_token).
Grants ==
    << JList(<< >>),
       JList(<< Entry("repository", "library/nginx", <<"pull">>) >>),
       JList(<< Entry("repository", "foo", <<"pull", "push">>) >>),
       JList(<< Entry("repository", "foo", <<"pull">>),
                Entry("repository", "foo", <<"push">>) >>),
       JList(<< Entry("registry", "catalog", <<"list">>),
                Entry("repository", "a:b", <<"pull">>) >>) >>

\* Scope strings.
ScopeStrings ==
    << "repository:library/nginx:pull",
       "repository:library/nginx:push",
       "repository:foo:push",
       "registry:foo:pull",
       "repository:foo:pull repository:foo:push",
       "repository:foo:pull repository:foo:list",
       "repository:a:b:pull",
       "registry:catalog:list repository:a:b:pull",
       "bad",
       "repository:foo",
       "",
       "repository:foo:pull  repository:foo:push" >>

\* The grants and scope strings used with issued tokens.
TokenGrants == << Grants[2], Grants[4], Grants[5] >>
TokenScopeStrings ==
    << ScopeStrings[1], ScopeStrings[2], ScopeStrings[5], ScopeStrings[7],
       ScopeStrings[9], ScopeStrings[12] >>

\* Expiration arguments of create_token.
Expirations ==
    << [k |-> "None", v |-> 0],
       [k |-> "int", v |-> 1],
       [k |-> "int", v |-> 0],
       [k |-> "int", v |-> OneYear - 1],
       [k |-> "int", v |-> OneYear],
       [k |-> "int", v |-> 40000000],
       [k |-> "int", v |-> Now0 + 5000],
       [k |-> "timedelta", v |-> 2],
       [k |-> "str", v |-> IntToStr(Now0 + 5000)],
       [k |-> "str", v |-> "soon"],
       [k |-> "datetime", v |-> Aware(Now0 + 5000)] >>

\* The time zones a host may run in.
UtcOffsets == {-3600, 0, 3600}

\* Tokens that create_token did not produce, presented when the clock shows
\* t: signed with the shared secret by another producer (wrong issuer, wrong
\* audience, a malformed or missing access claim), or not a JWS at all.
ForeignClaims(iss, aud, t) ==
    [iss |-> JStr(iss), sub |-> JStr("mallory"), aud |-> JStr(aud),
     exp |-> JInt(t + 2), iat |-> JInt(t), nbf |-> JInt(t - 5)]

WithAccess(c, access) ==
    [x \in DOMAIN c \cup {"access"} |-> IF x = "access" THEN access ELSE c[x]]

ForeignTokens(t) ==
    << [k |-> "garbage"],
       [k |-> "jwt", sig |-> "ok",
        claims |-> JDict(WithAccess(ForeignClaims("someone-else", AUDIENCE, t), Grants[3]))],
       [k |-> "jwt", sig |-> "ok",
        claims |-> JDict(WithAccess(ForeignClaims(ISSUER, "someone-else", t), Grants[3]))],
       [k |-> "jwt", sig |-> "ok",
        claims |-> JDict(ForeignClaims(ISSUER, AUDIENCE, t))],
       [k |-> "jwt", sig |-> "ok",
        claims |-> JDict(WithAccess(ForeignClaims(ISSUER, AUDIENCE, t),
                     JList(<< Entry("repository", "foo", <<"pull", "delete">>) >>)))],
       [k |-> "jwt", sig |-> "bad",
        claims |-> JDict(WithAccess(ForeignClaims(ISSUER, AUDIENCE, t), Grants[3]))] >>

(***************************************************************************)
(* Token issue and validation: the state machine                           *)
(***************************************************************************)
Init ==
    /\ now = Now0
    /\ utcoffset \in UtcOffsets
    /\ token = NoToken
    /\ minted = NoMint
    /\ ref = NoRef
    /\ call = NoCall
    /\ ret = Return(None)

\* Time passes.
Tick ==
    /\ now + 1 <= Now0 + MaxElapsed
    /\ now' = now + 1
    /\ call' = [op |-> "tick"]
    /\ ret' = Return(None)
    /\ UNCHANGED <<utcoffset, token, minted, ref>>

\* create_token(subject, access, expiration); the clock may advance by
\* drift between the reading of now_plus and the reading of `issued`.
\* Tokens do not depend on one another: a behaviour follows one token.
CreateToken ==
    /\ token.k = "none"
    /\ \E subject \in Subjects, g \in 1..Len(TokenGrants), e \in 1..Len(Expirations),
       drift \in 0..MaxDrift :
        LET t1 == now
            t2 == now + drift
            out == create_token(subject, TokenGrants[g], Expirations[e], t1, t2)
        IN  /\ t2 <= Now0 + MaxElapsed
            /\ now' = t2
            /\ call' = [op |-> "create_token", subject |-> subject,
                        access |-> TokenGrants[g], expiration |-> Expirations[e],
                        t1 |-> t1, t2 |-> t2]
            /\ ret' = out
            /\ IF out.k = "return"
               THEN /\ token' = out.v
                    /\ minted' = [k |-> "create_token", subject |-> subject,
                                  access |-> TokenGrants[g],
                                  expiration |-> Expirations[e],
                                  t1 |-> t1, t2 |-> t2]
               ELSE UNCHANGED <<token, minted>>
            /\ UNCHANGED <<utcoffset, ref>>

\* One character of the signature segment of the token is flipped.
Tamper ==
    /\ token.k = "jwt"
    /\ token.sig = "ok"
    /\ token' = [token EXCEPT !.sig = "bad"]
    /\ call' = [op |-> "tamper"]
    /\ ret' = Return(None)
    /\ UNCHANGED <<now, utcoffset, minted, ref>>

\* A token from elsewhere is presented.
Present ==
    /\ token.k = "none"
    /\ \E f \in 1..Len(ForeignTokens(now)) : token' = ForeignTokens(now)[f]
    /\ minted' = NoMint
    /\ call' = [op |-> "present"]
    /\ ret' = Return(None)
    /\ UNCHANGED <<now, utcoffset, ref>>

\* validate_token_data(token)
Validate ==
    /\ token.k # "none"
    /\ call' = [op |-> "validate_token_data", data |-> token, t |-> now]
    /\ ret' = validate_token_data_str(token, now)
    /\ UNCHANGED <<now, utcoffset, token, minted, ref>>

\* validate_token_data(token, scope: str)
ValidateScopeStr ==
    /\ token.k # "none"
    /\ \E s \in 1..Len(TokenScopeStrings) :
         /\ call' = [op |-> "validate_token_data_scope_str", data |-> token,
                     scope |-> TokenScopeStrings[s], t |-> now]
         /\ ret' = validate_token_data_scope_str(token, TokenScopeStrings[s], now)
    /\ UNCHANGED <<now, utcoffset, token, minted, ref>>

Next == Tick \/ CreateToken \/ Tamper \/ Present \/ Validate \/ ValidateScopeStr

Spec == Init /\ [][Next]_vars

(***************************************************************************)
(* Properties of token issue and validation                                *)
(***************************************************************************)
SameValue(x, y) == x.k = y.k /\ (x.k # "None" => x = y)
SameOutcome(a, b) ==
    /\ a.k = b.k
    /\ (a.k = "raise" => a.v = b.v)
    /\ (a.k = "return" => SameValue(a.v, b.v))

ColonPositions(tok) == {i \in 1..Len(tok) : CharAt(tok, i) = ":"}
FirstColon(tok) == CHOOSE i \in ColonPositions(tok) : \A j \in ColonPositions(tok) : i <= j
LastColon(tok) == CHOOSE i \in ColonPositions(tok) : \A j \in ColonPositions(tok) : j <= i
ShortToken(tok) == Cardinality(ColonPositions(tok)) < 2
\* The triple a scope token stands for: the text before its first colon,
\* the text between its first and its last colon, the text after its last.
TripleOf(tok) ==
    << SubSeq(tok, 1, FirstColon(tok) - 1),
       SubSeq(tok, FirstColon(tok) + 1, LastColon(tok) - 1),
       SubSeq(tok, LastColon(tok) + 1, Len(tok)) >>
\* The grant list grants the triple: some entry, at any position, has the
\* triple's type and name and lists its action.
Grants3(access, triple) ==
    \E i \in 1..Len(access) :
        /\ access[i].v.type.v = triple[1]
        /\ access[i].v.name.v = triple[2]
        /\ triple[3] \in {access[i].v.actions.v[a].v : a \in 1..Len(access[i].v.actions.v)}
ScopeTokens(scope) == Split(scope, " ")
AnyShortToken(scope) ==
    \E i \in 1..Len(ScopeTokens(scope)) : ShortToken(ScopeTokens(scope)[i])
AllGranted(access, scope) ==
    \A i \in 1..Len(ScopeTokens(scope)) :
        Grants3(access, TripleOf(ScopeTokens(scope)[i]))

\* C1 (as the specification states it): a token that create_token produced
\* from grant G, validated at once and not after its exp claim with a
\* well-formed scope string S, makes validate_token_data return G when G
\* grants every triple of S, and None when it does not grant one of them.
C1_TokenRoundTrip ==
    ( /\ call.op = "validate_token_data_scope_str"
      /\ minted.k = "create_token"
      /\ token.sig = "ok"
      /\ call.t = minted.t2
      /\ call.t <= token.claims.v.exp.v
      /\ ~AnyShortToken(call.scope) )
    => /\ Returned(ret)
       /\ IF AllGranted(minted.access.v, call.scope)
          THEN ret.v.k = "list" /\ ret.v = minted.access
          ELSE IsNone(ret.v)

\* The step-1 failures the specification lists: a malformed token, a
\* signature that does not verify, a wrong issuer or audience, an exp claim
\* that has passed (a token that is not valid yet is left out).
ListedFailure(data, t) ==
    \/ data.k # "jwt"
    \/ /\ data.k = "jwt"
       /\ data.claims.v.nbf.v <= t
       /\ \/ data.sig # "ok"
          \/ data.claims.v.exp.v < t
          \/ data.claims.v.iss.v # ISSUER
          \/ data.claims.v.aud.v # AUDIENCE

\* C2 (as the specification states it): whenever the signature / issuer /
\* audience / expiration check of a presented token fails,
\* validate_token_data returns None and does not raise.
C2_SoftFailure ==
    ( /\ call.op \in {"validate_token_data", "validate_token_data_scope_str"}
      /\ (call.op = "validate_token_data_scope_str" => ~AnyShortToken(call.scope))
      /\ ListedFailure(call.data, call.t) )
    => Returned(ret) /\ IsNone(ret.v)

\* C5: validate_token_data with a scope string raises ValueError exactly
\* when one of its space-separated tokens has fewer than three
\* colon-separated fields, whatever the token presented; otherwise the
\* outcome is that of the token's own validation, kept only if the access
\* claim grants (first field, middle fields joined by ':', last field) of
\* every scope token.
C5_ScopeStringParsing ==
    call.op = "validate_token_data_scope_str" =>
        IF AnyShortToken(call.scope)
        THEN Raised(ret, "ValueError")
        ELSE LET d == validate_token_data_str(call.data, call.t)
             IN  IF d.k = "raise" \/ IsNone(d.v) THEN SameOutcome(ret, d)
                 ELSE IF AllGranted(d.v.v.access.v, call.scope)
                      THEN SameOutcome(ret, d)
                      ELSE Returned(ret) /\ IsNone(ret.v)

\* C5 witness: a scope string with an empty token between two spaces
\* raised ValueError although the token presented with it does not verify.
C5_Witness ==
    /\ call.op = "validate_token_data_scope_str"
    /\ call.scope = "repository:foo:pull  repository:foo:push"
    /\ call.data.k = "jwt"
    /\ call.data.sig = "bad"
    /\ Raised(ret, "ValueError")

\* A name with a colon in it was matched: "repository:a:b:pull" against a
\* grant of pull on the repository "a:b".
C5_ColonNameMatched ==
    /\ call.op = "validate_token_data_scope_str"
    /\ call.scope = "repository:a:b:pull"
    /\ Returned(ret)
    /\ ~IsNone(ret.v)

\* The exp claim the specification prescribes for an expiration argument
\* when "now" is t.
PrescribedExp(expiration, t) ==
    CASE expiration.k = "None" -> t + DEFAULT_TOKEN_VALIDITY_PERIOD
      [] expiration.k = "int" ->
           IF expiration.v < 31536000 THEN t + expiration.v ELSE expiration.v
      [] expiration.k = "timedelta" -> t + expiration.v
      [] expiration.k = "str" -> ParseInt(expiration.v)
      [] expiration.k = "datetime" -> timestamp(expiration.v)

\* C6 (as the specification states it): the exp claim of the token
\* create_token returns is the expiration argument resolved against the
\* time of the call ("now" being either of the call's two clock readings).
C6_ExpirationResolution ==
    (call.op = "create_token" /\ Returned(ret)) =>
        \E t \in {call.t1, call.t2} :
            ret.v.claims.v.exp.v = PrescribedExp(call.expiration, t)

\* C7 (as the specification states it): every token create_token returns
\* has exp > iat.
C7_ExpirationAfterIssued ==
    (call.op = "create_token" /\ Returned(ret)) =>
        ret.v.claims.v.exp.v > ret.v.claims.v.iat.v

(***************************************************************************)
(* Decoded claims and scopes: validate_token_data(data: dict[, scope]) and *)
(* scope_is_allowed called directly. These are functions of their          *)
(* arguments alone: a behaviour is one call.                               *)
(***************************************************************************)
BaseClaims ==
    [iss |-> JStr(ISSUER), sub |-> JStr("alice"), aud |-> JStr(AUDIENCE),
     exp |-> JInt(Now0 + 1), iat |-> JInt(Now0), nbf |-> JInt(Now0 - 5)]

FooPull == Entry("repository", "foo", <<"pull">>)

\* Values of the access claim that break one rule each, the second half of
\* them beside an entry that grants pull on the repository foo.
BadAccess ==
    << JStr("repository:foo:pull"),
       JDict([type |-> JStr("repository"), name |-> JStr("foo"),
              actions |-> JList(Strs(<<"pull">>))]),
       JList(<< JStr("repository:foo:pull") >>),
       JList(<< JDict([name |-> JStr("foo"), actions |-> JList(Strs(<<"pull">>))]) >>),
       JList(<< JDict([type |-> JStr("repository"), actions |-> JList(Strs(<<"pull">>))]) >>),
       JList(<< JDict([type |-> JStr("repository"), name |-> JStr("foo")]) >>),
       JList(<< JDict([type |-> JInt(1), name |-> JStr("foo"),
                       actions |-> JList(Strs(<<"pull">>))]) >>),
       JList(<< Entry("blob", "foo", <<"pull">>) >>),
       JList(<< JDict([type |-> JStr("repository"), name |-> JInt(7),
                       actions |-> JList(Strs(<<"pull">>))]) >>),
       JList(<< JDict([type |-> JStr("repository"), name |-> JStr("foo"),
                       actions |-> JStr("pull")]) >>),
       JList(<< JDict([type |-> JStr("repository"), name |-> JStr("foo"),
                       actions |-> JList(<< JInt(1) >>)]) >>),
       JList(<< Entry("repository", "foo", <<"pull", "delete">>) >>),
       JList(<< FooPull, Entry("repository", "bar", <<"delete">>) >>),
       JList(<< Entry("Repository", "bar", <<"pull">>), FooPull >>),
       JList(<< FooPull, JDict([type |-> JStr("repository"), name |-> JStr("bar")]) >>),
       JList(<< FooPull, JStr("x") >>) >>

\* Decoded claims objects: without an access claim, with each of the
\* well-formed grants, with each of the broken ones.
DecodedInputs ==
    << JDict(BaseClaims) >>
    \o [i \in 1..Len(Grants) |-> JDict(WithAccess(BaseClaims, Grants[i]))]
    \o [i \in 1..Len(BadAccess) |-> JDict(WithAccess(BaseClaims, BadAccess[i]))]

Triples ==
    << <<"repository", "foo", "pull">>,
       <<"repository", "foo", "push">>,
       <<"repository", "foo", "list">>,
       <<"repository", "bar", "pull">>,
       <<"registry", "foo", "pull">>,
       <<"repository", "fo", "pull">>,
       <<"repository", "Foo", "pull">>,
       <<"repository", "library/nginx", "pull">>,
       <<"registry", "catalog", "list">>,
       <<"repository", "a:b", "pull">> >>

TripleLists ==
    << << Triples[1] >>,
       << Triples[1], Triples[2] >>,
       << Triples[2], Triples[1] >>,
       << Triples[1], Triples[3] >>,
       << Triples[4], Triples[1] >>,
       << Triples[9], Triples[10] >>,
       << Triples[9], Triples[10], Triples[8] >> >>

Bool(b) == [k |-> "bool", v |-> b]

\* validate_token_data(data: dict)
ValidateDict ==
    /\ call.op = "none"
    /\ \E d \in 1..Len(DecodedInputs) :
         /\ call' = [op |-> "validate_token_data_dict", data |-> DecodedInputs[d]]
         /\ ret' = validate_token_data_dict(DecodedInputs[d])
    /\ UNCHANGED <<now, utcoffset, token, minted, ref>>

\* validate_token_data(data: dict, scope: List[Tuple[str, str, str]])
ValidateDictScope ==
    /\ call.op = "none"
    /\ \E d \in 1..Len(DecodedInputs), l \in 1..Len(TripleLists) :
         /\ call' = [op |-> "validate_token_data_dict_scope",
                     data |-> DecodedInputs[d], scope |-> TripleLists[l]]
         /\ ret' = validate_token_data_scope(DecodedInputs[d], TripleLists[l], now)
    /\ UNCHANGED <<now, utcoffset, token, minted, ref>>

\* validate_token_data(data: dict, scope: str)
ValidateDictScopeStr ==
    /\ call.op = "none"
    /\ \E d \in 1..Len(DecodedInputs), s \in 1..Len(ScopeStrings) :
         /\ call' = [op |-> "validate_token_data_dict_scope_str",
                     data |-> DecodedInputs[d], scope |-> ScopeStrings[s]]
         /\ ret' = validate_token_data_scope_str(DecodedInputs[d], ScopeStrings[s], now)
    /\ UNCHANGED <<now, utcoffset, token, minted, ref>>

\* scope_is_allowed(scope: Tuple[str, str, str], access)
ScopeIsAllowed ==
    /\ call.op = "none"
    /\ \E s \in 1..Len(Triples), g \in 1..Len(Grants) :
         /\ call' = [op |-> "scope_is_allowed", scope |-> Triples[s],
                     access |-> Grants[g].v]
         /\ ret' = Return(Bool(scope_is_allowed(Triples[s], Grants[g].v)))
    /\ UNCHANGED <<now, utcoffset, token, minted, ref>>

\* scope_is_allowed(scope: List[Tuple[str, str, str]], access)
ScopeIsAllowedList ==
    /\ call.op = "none"
    /\ \E l \in 1..Len(TripleLists), g \in 1..Len(Grants) :
         /\ call' = [op |-> "scope_is_allowed_list", scope |-> TripleLists[l],
                     access |-> Grants[g].v]
         /\ ret' = Return(Bool(scope_is_allowed_list(TripleLists[l], Grants[g].v)))
    /\ UNCHANGED <<now, utcoffset, token, minted, ref>>

NextAccess ==
    \/ ValidateDict
    \/ ValidateDictScope
    \/ ValidateDictScopeStr
    \/ ScopeIsAllowed
    \/ ScopeIsAllowedList

SpecAccess == Init /\ [][NextAccess]_vars

\* The structure the specification requires of a decoded claims object: an
\* access claim that is a list of objects, each with a type among registry
\* and repository, a string name, and a list of actions among push, pull
\* and list.
IsStrIn(x, S) == x.k = "str" /\ x.v \in S
WellFormedEntry(e) ==
    /\ e.k = "dict"
    /\ {"type", "name", "actions"} \subseteq DOMAIN e.v
    /\ IsStrIn(e.v.type, {"registry", "repository"})
    /\ e.v.name.k = "str"
    /\ e.v.actions.k = "list"
    /\ \A a \in 1..Len(e.v.actions.v) :
           IsStrIn(e.v.actions.v[a], {"push", "pull", "list"})
WellFormedClaims(data) ==
    /\ "access" \in DOMAIN data.v
    /\ data.v.access.k = "list"
    /\ \A i \in 1..Len(data.v.access.v) : WellFormedEntry(data.v.access.v[i])

DictCalls ==
    {"validate_token_data_dict", "validate_token_data_dict_scope",
     "validate_token_data_dict_scope_str"}

\* C3: validate_token_data on a decoded claims object returns something
\* other than None only if the access claim is well formed; a claims object
\* whose access claim is missing or has one malformed element yields None,
\* with or without a requested scope, also when another element grants the
\* scope.
C3_StructuralRevalidation ==
    (call.op \in DictCalls /\ ~Raised(ret, "ValueError")) =>
        /\ Returned(ret)
        /\ ~IsNone(ret.v) => WellFormedClaims(call.data)
        /\ ~WellFormedClaims(call.data) => IsNone(ret.v)

\* C3 witness: pull on repository foo was requested from claims whose access
\* lists an entry granting it and an entry with an unknown action, and the
\* result is None.
C3_Witness ==
    /\ call.op = "validate_token_data_dict_scope"
    /\ call.scope = << <<"repository", "foo", "pull">> >>
    /\ "access" \in DOMAIN call.data.v
    /\ call.data.v.access.k = "list"
    /\ Len(call.data.v.access.v) = 2
    /\ WellFormedEntry(call.data.v.access.v[1])
    /\ Grants3(<< call.data.v.access.v[1] >>, <<"repository", "foo", "pull">>)
    /\ call.data.v.access.v[2].k = "dict"
    /\ ~WellFormedEntry(call.data.v.access.v[2])
    /\ Returned(ret)
    /\ IsNone(ret.v)

\* C4: scope_is_allowed on one triple is true exactly when some entry of
\* the grant list, at any position, has the triple's type and name and
\* lists its action; on a list of triples it is true exactly when every
\* triple of the list is allowed.
C4_ScopeMatching ==
    /\ call.op = "scope_is_allowed" =>
           (ret.v.v <=> Grants3(call.access, call.scope))
    /\ call.op = "scope_is_allowed_list" =>
           (ret.v.v <=> \A i \in 1..Len(call.scope) : Grants3(call.access, call.scope[i]))

\* C4 witness: push on repository foo is allowed by a grant list whose
\* first foo entry grants only pull and whose second grants push.
C4_Witness ==
    /\ call.op = "scope_is_allowed"
    /\ call.scope = <<"repository", "foo", "push">>
    /\ Len(call.access) = 2
    /\ call.access[1].v.name.v = "foo"
    /\ ~Grants3(<<call.access[1]>>, call.scope)
    /\ ret.v.v = TRUE

(***************************************************************************)
(* models/repository/__init__.py: Digest, and models/model.py:             *)
(* ValidatedValue                                                          *)
(***************************************************************************)
LowerLetters == "abcdefghijklmnopqrstuvwxyz"
UpperLetters == "ABCDEFGHIJKLMNOPQRSTUVWXYZ"
hexdigits == "0123456789abcdefABCDEF"

\* c in s, for a one-character c
InStr(c, s) == \E i \in 1..Len(s) : CharAt(s, i) = c

LowerChar(c) ==
    IF InStr(c, UpperLetters)
    THEN CharAt(LowerLetters, CHOOSE i \in 1..Len(UpperLetters) : CharAt(UpperLetters, i) = c)
    ELSE c

\* s.lower()
RECURSIVE Lower(_)
Lower(s) == IF Len(s) = 0 THEN "" ELSE LowerChar(CharAt(s, 1)) \o Lower(SubSeq(s, 2, Len(s)))

\* s.startswith(prefix), s.removeprefix(prefix)
StartsWith(s, prefix) == Len(prefix) <= Len(s) /\ SubSeq(s, 1, Len(prefix)) = prefix
RemovePrefix(s, prefix) ==
    IF StartsWith(s, prefix) THEN SubSeq(s, Len(prefix) + 1, Len(s)) ELSE s

\* Digest.valid_algorithms, hashlib.algorithms_available (the algorithms
\* every build of hashlib has, among them), Digest.available_algorithms,
\* Digest.hash_lengths, Digest.valid_prefixes.
valid_algorithms == <<"sha256">>
algorithms_available == <<"md5", "sha1", "sha224", "sha384", "sha512">>
available_algorithms == valid_algorithms \o algorithms_available
hash_lengths == [sha256 |-> 64]
valid_prefixes == [i \in 1..Len(available_algorithms) |-> available_algorithms[i] \o ":"]

\* Digest._pop_prefix(value): <<_pfx, _val>>, _pfx being None or the prefix
\* found, its colon included. No prefix is the start of another, so the
\* order in which the set of prefixes is walked does not matter.
pop_prefix(value) ==
    LET found == {i \in 1..Len(valid_prefixes) : StartsWith(value, valid_prefixes[i])}
    IN  IF found = {} THEN << None, value >>
        ELSE LET prefix == valid_prefixes[CHOOSE i \in found : \A j \in found : i <= j]
             IN  << JStr(prefix), RemovePrefix(value, prefix) >>

\* Digest.is_prefixed(value)
is_prefixed(value) ==
    IF ~\E i \in 1..Len(valid_prefixes) : StartsWith(value, valid_prefixes[i])
    THEN Raise("ValueError: digest must begin with one of valid_algorithms")
    ELSE Return(JStr(value))

\* Digest.is_hex(value)
is_hex(value) ==
    LET hex == pop_prefix(value)[2]
    IN  IF ~\A i \in 1..Len(hex) : InStr(CharAt(hex, i), hexdigits)
        THEN Raise("ValueError: digest must be hexadecimal")
        ELSE Return(JStr(value))

\* Digest.is_correct_length(value): hash_lengths is keyed by algorithm
\* name, _pfx is None or a prefix ending in a colon.
is_correct_length(value) ==
    LET pfx == pop_prefix(value)[1]
        hex == pop_prefix(value)[2]
    IN  IF IsNone(pfx) \/ pfx.v \notin DOMAIN hash_lengths
        THEN Raise("KeyError")
        ELSE IF Len(hex) # hash_lengths[pfx.v]
             THEN Raise("ValueError: digest must be of correct length")
             ELSE Return(JStr(value))

\* Python objects that may be called: a bound method of the class Digest
\* (Digest.is_hex), the classmethod object found in the class body (what
\* the list __validators__ holds), a str.
Method(name) == [k |-> "method", v |-> name]
ClassMethod(name) == [k |-> "classmethod", v |-> name]

\* f(x): only the bound method is callable.
PyCall(f, x) ==
    IF f.k # "method" THEN Raise("TypeError")
    ELSE IF x.k # "str" THEN Raise("TypeError")
    ELSE CASE f.v = "is_prefixed" -> is_prefixed(x.v)
           [] f.v = "is_hex" -> is_hex(x.v)
           [] f.v = "is_correct_length" -> is_correct_length(x.v)

\* Digest.__validators__
validators == << ClassMethod("is_prefixed"), ClassMethod("is_hex"),
                 ClassMethod("is_correct_length") >>

\* ValidatedValue.validate._do_validation(func_, value_)
do_validation(func_, value_) == PyCall(func_, value_)

\* functools.reduce(function, iterable, initial): function(accumulator,
\* item) over the items, as ValidatedValue.validate calls it with
\* _do_validation, the validators and the value.
RECURSIVE reduce(_, _)
reduce(iterable, accumulator) ==
    IF Len(iterable) = 0 THEN Return(accumulator)
    ELSE LET r == do_validation(accumulator, Head(iterable))
         IN  IF r.k = "raise" THEN r ELSE reduce(Tail(iterable), r.v)

\* ValidatedValue.validate(validated_type = Digest, value)
validate(value) == reduce(validators, value)

\* Digest(value): ValidatedValue.__init__
DigestObject(s) == [k |-> "Digest", v |-> s]
Digest(value) ==
    IF value.k = "Digest" THEN Return(DigestObject(value.v))
    ELSE LET r == validate(value)
         IN  IF r.k = "raise" THEN r ELSE Return(DigestObject(r.v.v))

\* Digest.__str__
DigestStr(d) == Lower(d.v)

\* Digest.from_hex(hex_digits, algorithm)
from_hex(hex_digits, algorithm) == Digest(JStr(algorithm \o ":" \o hex_digits))

(***************************************************************************)
(* Digest inputs                                                           *)
(***************************************************************************)
RECURSIVE Repeat(_, _)
Repeat(s, n) == IF n = 0 THEN "" ELSE s \o Repeat(s, n - 1)

\* What may follow the prefix: 64 hex digits in lower, upper and mixed case,
\* one digit too few and too many, 32 digits, nothing, a non-hex character.
HexBodies ==
    << Repeat("a", 64), Repeat("A", 64), Repeat("0123456789abcdefABCDEF0f", 2) \o Repeat("Fe", 8),
       Repeat("0", 64), Repeat("a", 63), Repeat("a", 65), Repeat("a", 32), "",
       Repeat("a", 63) \o "g", Repeat("z", 64), Repeat("a", 32) \o ":" \o Repeat("a", 31) >>

DigestPrefixes == << "sha256:", "md5:", "sha512:", "SHA256:", "sha256", "", "crc32:" >>

DigestInputs ==
    [i \in 1..(Len(DigestPrefixes) * Len(HexBodies)) |->
        DigestPrefixes[((i - 1) \div Len(HexBodies)) + 1]
            \o HexBodies[((i - 1) % Len(HexBodies)) + 1]]

\* Digest(value)
DigestInit ==
    /\ call.op = "none"
    /\ \E i \in 1..Len(DigestInputs) :
         /\ call' = [op |-> "Digest", value |-> DigestInputs[i]]
         /\ ret' = Digest(JStr(DigestInputs[i]))
    /\ UNCHANGED <<now, utcoffset, token, minted, ref>>

\* Digest.from_hex(hex_digits, algorithm)
DigestFromHex ==
    /\ call.op = "none"
    /\ \E h \in 1..Len(HexBodies), a \in 1..Len(available_algorithms) :
         /\ call' = [op |-> "Digest.from_hex", hex_digits |-> HexBodies[h],
                     algorithm |-> available_algorithms[a]]
         /\ ret' = from_hex(HexBodies[h], available_algorithms[a])
    /\ UNCHANGED <<now, utcoffset, token, minted, ref>>

\* Digest.is_prefixed(value), Digest.is_hex(value),
\* Digest.is_correct_length(value) called on the class.
DigestValidator ==
    /\ call.op = "none"
    /\ \E i \in 1..Len(DigestInputs), f \in {"is_prefixed", "is_hex", "is_correct_length"} :
         /\ call' = [op |-> "Digest." \o f, value |-> DigestInputs[i]]
         /\ ret' = PyCall(Method(f), JStr(DigestInputs[i]))
    /\ UNCHANGED <<now, utcoffset, token, minted, ref>>

NextDigest == DigestInit \/ DigestFromHex \/ DigestValidator

SpecDigest == Init /\ [][NextDigest]_vars

IsHexString(s) == \A i \in 1..Len(s) : InStr(CharAt(s, i), "0123456789abcdefABCDEF")

\* C8 (as the specification states it): Digest accepts 'sha256:' followed
\* by exactly 64 hexadecimal characters of any case, and the text of the
\* Digest is the input with its hex part in lower case; from_hex(h) with a
\* valid h gives a Digest whose hex is h in lower case.
C8_DigestRoundTrip ==
    /\ ( /\ call.op = "Digest"
         /\ StartsWith(call.value, "sha256:")
         /\ Len(call.value) = 7 + 64
         /\ IsHexString(SubSeq(call.value, 8, Len(call.value))) )
       => /\ Returned(ret)
          /\ DigestStr(ret.v) = "sha256:" \o Lower(SubSeq(call.value, 8, Len(call.value)))
    /\ ( /\ call.op = "Digest.from_hex"
         /\ call.algorithm = "sha256"
         /\ Len(call.hex_digits) = 64
         /\ IsHexString(call.hex_digits) )
       => /\ Returned(ret)
          /\ pop_prefix(DigestStr(ret.v))[2] = Lower(call.hex_digits)

\* The error the specification prescribes for an invalid digest string:
\* the first failing check of prefix, hex, length, the only supported
\* prefix being 'sha256:'.
PrescribedDigestError(value) ==
    IF ~StartsWith(value, "sha256:")
    THEN "ValueError: digest must begin with one of valid_algorithms"
    ELSE IF ~IsHexString(SubSeq(value, 8, Len(value)))
         THEN "ValueError: digest must be hexadecimal"
         ELSE "ValueError: digest must be of correct length"

ValidDigestString(value) ==
    /\ StartsWith(value, "sha256:")
    /\ Len(value) = 7 + 64
    /\ IsHexString(SubSeq(value, 8, Len(value)))

\* C9 (as the specification states it): Digest rejects every invalid
\* string with the error of the first failing check, in the order prefix,
\* hex, length, and with no other failure.
C9_DigestRejects ==
    (call.op = "Digest" /\ ~ValidDigestString(call.value)) =>
        Raised(ret, PrescribedDigestError(call.value))

(***************************************************************************)
(* models/repository/__init__.py: DockerImageReferenceParts                *)
(*                                                                         *)
(* image_pattern.match(image) is what the backtracking matcher of re       *)
(* finds: anchored at the start of the string, every optional group and    *)
(* every repetition taking as much as it can, and giving back only when    *)
(* what follows cannot match. What follows the name is optional            *)
(* throughout, so a match never gives back part of the name or of the tag. *)
(***************************************************************************)
DigitChars == "0123456789"
LowerAlnum == LowerLetters \o DigitChars
Letters == LowerLetters \o UpperLetters
Alnum == Letters \o DigitChars
WordChars == Alnum \o "_"
TagChars == WordChars \o ".-"
HexDigitChars == "ABCDEFabcdef0123456789"

\* The one element of a set of one element.
Only(S) == CHOOSE x \in S : TRUE

\* The character at position i, "" beyond the ends of s.
At(s, i) == IF i >= 1 /\ i <= Len(s) THEN SubSeq(s, i, i) ELSE ""
InClass(c, class) == c # "" /\ InStr(c, class)
AllIn(s, class) == \A i \in 1..Len(s) : InStr(CharAt(s, i), class)

\* The last position of the longest run of characters of class that starts
\* at position i; i - 1 when there is none.
RunEnd(s, i, class) ==
    IF i > Len(s) THEN i - 1
    ELSE CHOOSE j \in (i - 1)..Len(s) :
            /\ ~InClass(At(s, j + 1), class)
            /\ \A k \in i..j : InClass(At(s, k), class)

\* The position of the first c in s at or after i; 0 when there is none.
Find(s, c, i) ==
    IF \E j \in i..Len(s) : At(s, j) = c
    THEN CHOOSE j \in i..Len(s) : At(s, j) = c /\ \A k \in i..(j - 1) : At(s, k) # c
    ELSE 0

\* _host_name_pattern_raw, matched against the whole of h: components
\* joined by single dots, each of letters, digits and inner hyphens.
IsHostName(h) ==
    /\ Len(h) >= 1
    /\ AllIn(h, Alnum \o "-.")
    /\ InClass(At(h, 1), Alnum)
    /\ InClass(At(h, Len(h)), Alnum)
    /\ \A i \in 1..Len(h) :
         At(h, i) = "." => InClass(At(h, i - 1), Alnum) /\ InClass(At(h, i + 1), Alnum)

\* _ipv6_pattern_raw, matched against the whole of h
IsIPv6(h) ==
    /\ Len(h) >= 3
    /\ At(h, 1) = "["
    /\ At(h, Len(h)) = "]"
    /\ AllIn(SubSeq(h, 2, Len(h) - 1), "abcdefABCDEF0123456789:")

\* _registry_pattern_raw, matched against the whole of r: the groups host
\* and port, or no match. A bracketed host ends at its bracket, any other
\* host at the first colon.
NoMatch == [k |-> "nomatch"]
RegistryHostEnd(r) ==
    IF At(r, 1) = "[" THEN Find(r, "]", 1)
    ELSE IF Find(r, ":", 1) = 0 THEN Len(r) ELSE Find(r, ":", 1) - 1
RegistryMatch(r) ==
    Only({ IF ~(IsHostName(SubSeq(r, 1, hostEnd)) \/ IsIPv6(SubSeq(r, 1, hostEnd)))
           THEN NoMatch
           ELSE IF hostEnd = Len(r)
           THEN [k |-> "match", host |-> SubSeq(r, 1, hostEnd), port |-> None]
           ELSE IF At(r, hostEnd + 1) = ":" /\ Len(r) >= hostEnd + 2
                   /\ AllIn(SubSeq(r, hostEnd + 2, Len(r)), DigitChars)
           THEN [k |-> "match", host |-> SubSeq(r, 1, hostEnd),
                 port |-> JStr(SubSeq(r, hostEnd + 2, Len(r)))]
           ELSE NoMatch
           : hostEnd \in {RegistryHostEnd(r)} })

\* _repo_name_pattern_raw: what may stand between two runs of lowercase
\* letters and digits of a name is one dot, one or two underscores, any
\* number of hyphens, or the slash between two components; and a run of
\* lowercase letters and digits follows it.
ValidSeparatorAt(s, a) ==
    \E b \in {RunEnd(s, a, "._-/")} :
        /\ b >= a
        /\ InClass(At(s, b + 1), LowerAlnum)
        /\ \/ SubSeq(s, a, b) \in {".", "_", "__", "/"}
           \/ AllIn(SubSeq(s, a, b), "-")

\* The name cannot go on at position a: a character that is no lowercase
\* letter or digit follows one, and no separator the name allows starts
\* there.
BreaksName(s, a) ==
    /\ ~InClass(At(s, a), LowerAlnum)
    /\ InClass(At(s, a - 1), LowerAlnum)
    /\ ~ValidSeparatorAt(s, a)

\* _repo_name_pattern_raw from position i: the position the name ends at,
\* i - 1 when no name starts at i. The name goes as far as it can.
NameEnd(s, i) ==
    IF ~InClass(At(s, i), LowerAlnum) THEN i - 1
    ELSE IF \E a \in (i + 1)..Len(s) : BreaksName(s, a)
    THEN (CHOOSE a \in (i + 1)..Len(s) :
             BreaksName(s, a) /\ \A k \in (i + 1)..(a - 1) : ~BreaksName(s, k)) - 1
    ELSE Len(s)

\* _tag_pattern_raw from position i: a word character and up to 127 more
\* word characters, dots and hyphens; i - 1 when no tag starts at i.
TagEnd(s, i) ==
    IF InClass(At(s, i), WordChars)
    THEN Only({ IF e > i + 127 THEN i + 127 ELSE e : e \in {RunEnd(s, i + 1, TagChars)} })
    ELSE i - 1

\* The algorithm of _digest_pattern_raw, matched against the whole of x:
\* parts of letters and digits that start with a letter, joined by one of
\* - _ + .
IsAlgorithm(x) ==
    /\ Len(x) >= 1
    /\ AllIn(x, Alnum \o "-_+.")
    /\ InClass(At(x, 1), Letters)
    /\ \A i \in 1..Len(x) :
         InClass(At(x, i), "-_+.") => InClass(At(x, i + 1), Letters)

\* _digest_pattern_raw from position i: the algorithm, a colon, 32 or more
\* hex digits; i - 1 when no digest starts at i.
DigestEnd(s, i) ==
    Only({ IF colon > i /\ IsAlgorithm(SubSeq(s, i, colon - 1))
              /\ RunEnd(s, colon + 1, HexDigitChars) - colon >= 32
           THEN RunEnd(s, colon + 1, HexDigitChars)
           ELSE i - 1
           : colon \in {Find(s, ":", i)} })

\* _repo_pattern_raw at the start of image: the optional registry and the
\* slash after it are tried first, and dropped when the text before the
\* first slash is no registry or no name follows the slash.
RepoMatch(image) ==
    Only({ Only({ IF reg.k = "match" /\ NameEnd(image, slash + 1) > slash
                  THEN [k |-> "match", host |-> JStr(reg.host), port |-> reg.port,
                        from |-> slash + 1, to |-> NameEnd(image, slash + 1)]
                  ELSE IF NameEnd(image, 1) >= 1
                  THEN [k |-> "match", host |-> None, port |-> None,
                        from |-> 1, to |-> NameEnd(image, 1)]
                  ELSE NoMatch
                  : reg \in {IF slash = 0 THEN NoMatch
                             ELSE RegistryMatch(SubSeq(image, 1, slash - 1))} })
           : slash \in {Find(image, "/", 1)} })

\* The groups tag and digest of a match whose name ends at e, and the
\* position the match ends at. When a tag has matched, the last group
\* needs the end of the string, and matches nothing when the string goes
\* on; a digest is looked for only when no tag has matched.
SuffixMatch(image, e) ==
    Only({ IF At(image, e + 1) = ":" /\ tagEnd > e + 1
           THEN [tag |-> JStr(SubSeq(image, e + 2, tagEnd)), digest |-> None,
                 end |-> tagEnd]
           ELSE IF At(image, e + 1) = "@" /\ digestEnd > e + 1
           THEN [tag |-> None, digest |-> JStr(SubSeq(image, e + 2, digestEnd)),
                 end |-> digestEnd]
           ELSE [tag |-> None, digest |-> None, end |-> e]
           : tagEnd \in {TagEnd(image, e + 2)}, digestEnd \in {DigestEnd(image, e + 2)} })

\* image_pattern.match(image): None, or the groups host, port, name, tag
\* and digest of the match and the position it ends at.
image_pattern_match(image) ==
    Only({ IF repo.k # "match" THEN NoMatch
           ELSE Only({ [k |-> "match",
                        host |-> repo.host,
                        port |-> repo.port,
                        name |-> JStr(SubSeq(image, repo.from, repo.to)),
                        tag |-> suffix.tag,
                        digest |-> suffix.digest,
                        end |-> suffix.end]
                       : suffix \in {SuffixMatch(image, repo.to)} })
           : repo \in {RepoMatch(image)} })

(***************************************************************************)
(* utils/error_utils.py                                                    *)
(***************************************************************************)
\* mutually_exclusive(a=a, b=b): at most one of the two is not None.
mutually_exclusive(a, b) ==
    IF ~IsNone(a) /\ ~IsNone(b) THEN Raise("ValueError") ELSE Return(None)

\* one_required(a=a, b=b): at least one of the two is not None.
one_required(a, b) ==
    IF IsNone(a) /\ IsNone(b) THEN Raise("ValueError") ELSE Return(None)

(***************************************************************************)
(* models/repository/__init__.py: DockerImageReference                     *)
(*                                                                         *)
(* A reference is its five attributes. The port is an int when it was      *)
(* given to the constructor or defaulted, and the str the pattern captured *)
(* when it was parsed.                                                     *)
(***************************************************************************)
DefaultPort == JInt(443)

\* The attributes before __init__ assigns any: the class defaults, and no
\* name.
ClassAttributes ==
    [k |-> "ref", host |-> None, port |-> DefaultPort, name |-> None,
     tag |-> None, digest |-> None]

\* f"{port}"
PortText(port) == IF port.k = "int" THEN IntToStr(port.v) ELSE port.v

\* self.port != 443: a str is never equal to 443.
PortIsDefault(port) == port.k = "int" /\ port.v = DefaultPort.v

\* The _image property, which __str__ returns.
image_getter(self) ==
    LET withHost == IF IsNone(self.host) THEN self.name.v
                    ELSE IF PortIsDefault(self.port)
                         THEN self.host.v \o "/" \o self.name.v
                         ELSE self.host.v \o ":" \o PortText(self.port)
                                 \o "/" \o self.name.v
    IN  IF ~IsNone(self.tag) THEN withHost \o ":" \o self.tag.v
        ELSE IF ~IsNone(self.digest) THEN withHost \o "@" \o self.digest.v
        ELSE withHost

\* The _image setter: the groups of the match replace the attributes; no
\* match is None, whose groupdict does not exist.
image_setter(self, image) ==
    Only({ IF match.k = "nomatch" THEN Raise("AttributeError")
           ELSE Return([self EXCEPT
                    !.host = match.host,
                    !.port = IF IsNone(match.port) THEN DefaultPort ELSE match.port,
                    !.name = match.name,
                    !.tag = match.tag,
                    !.digest = match.digest])
           : match \in {image_pattern_match(image)} })

\* int(port) of a str port
PortFromStr(port) ==
    IF AllDigits(port.v) THEN Return(JInt(ParseInt(port.v))) ELSE Raise("ValueError")

\* DockerImageReference(image_str, host=, port=, name=, tag=, digest=)
DockerImageReference(image_str, host, port, name, tag, digest) ==
    IF ~Returned(mutually_exclusive(tag, digest)) THEN mutually_exclusive(tag, digest)
    ELSE IF ~Returned(one_required(image_str, name)) THEN one_required(image_str, name)
    ELSE Only({ IF ~Returned(parsed) THEN parsed
                ELSE IF ~Returned(portOut) THEN portOut
                ELSE Return([parsed.v EXCEPT
                         !.host = IF IsNone(host) THEN @ ELSE host,
                         !.port = IF IsNone(port) THEN @ ELSE portOut.v,
                         !.name = IF IsNone(name) THEN @ ELSE name,
                         !.tag = IF IsNone(tag) THEN @ ELSE tag,
                         !.digest = IF IsNone(digest) THEN @ ELSE digest])
                : parsed \in {IF IsNone(image_str) THEN Return(ClassAttributes)
                              ELSE image_setter(ClassAttributes, image_str.v)},
                  portOut \in {IF port.k = "str" THEN PortFromStr(port) ELSE Return(port)} })

(***************************************************************************)
(* References: inputs and state machine                                    *)
(***************************************************************************)
Sha256Digest == "sha256:" \o Repeat("a", 64)
Md5Digest == "md5:" \o Repeat("0", 32)

RefHosts == {None, JStr("ghcr.io"), JStr("localhost")}
RefPorts == <<None, JInt(443), JInt(5000), JStr("5000"), JStr("http")>>
RefNames == {None, JStr("nginx"), JStr("library/nginx"), JStr("docat-org/docat")}
RefTags == {None, JStr("latest"), JStr("0.2.3")}
RefDigests == {None, JStr(Sha256Digest), JStr(Md5Digest)}
RefStrings ==
    { JStr("nginx"),
      JStr("nginx:latest"),
      JStr("library/nginx"),
      JStr("localhost:5000/nginx"),
      JStr("ghcr.io/docat-org/docat:0.2.3"),
      JStr("ghcr.io/docat-org/docat@" \o Sha256Digest),
      JStr("nginx:latest@" \o Sha256Digest),
      JStr("nginx:latest and more"),
      JStr("nginx@sha256:abc"),
      JStr("Nginx"),
      JStr("") }

\* What a construction leaves in the state.
Constructed(image_str, host, port, name, tag, digest) ==
    \E out \in {DockerImageReference(image_str, host, port, name, tag, digest)} :
        /\ call' = [op |-> "DockerImageReference", image_str |-> image_str,
                    host |-> host, port |-> port, name |-> name,
                    tag |-> tag, digest |-> digest]
        /\ ret' = out
        /\ ref' = IF Returned(out) THEN out.v ELSE ref
        /\ UNCHANGED <<now, utcoffset, token, minted>>

\* A reference is constructed from explicit fields.
ReferenceFromFields ==
    /\ call.op = "none"
    /\ \E host \in RefHosts, p \in 1..Len(RefPorts), name \in RefNames,
          tag \in RefTags, digest \in RefDigests :
         Constructed(None, host, RefPorts[p], name, tag, digest)

\* A reference is constructed from a composite string.
ReferenceFromString ==
    /\ call.op = "none"
    /\ \E image_str \in RefStrings :
         Constructed(image_str, None, None, None, None, None)

\* A reference is constructed from a composite string and explicit fields,
\* which override what the string gave.
ReferenceFromBoth ==
    /\ call.op = "none"
    /\ \E image_str \in RefStrings,
          host \in {None, JStr("localhost")}, p \in {1, 3},
          name \in {None, JStr("nginx")}, tag \in {None, JStr("latest")},
          digest \in {None, JStr(Sha256Digest)} :
         Constructed(image_str, host, RefPorts[p], name, tag, digest)

\* DockerImageReference(str(ref)): the reference just constructed is
\* formatted and the text parsed again.
Reparse ==
    /\ call.op = "DockerImageReference"
    /\ Returned(ret)
    /\ \E text \in {image_getter(ref)} :
         \E out \in {DockerImageReference(JStr(text), None, None, None, None, None)} :
            /\ call' = [op |-> "reparse", args |-> call, source |-> ref, text |-> text]
            /\ ret' = out
            /\ ref' = IF Returned(out) THEN out.v ELSE ref
    /\ UNCHANGED <<now, utcoffset, token, minted>>

NextRef ==
    \/ ReferenceFromFields
    \/ ReferenceFromString
    \/ ReferenceFromBoth
    \/ Reparse

SpecRef == Init /\ [][NextRef]_vars

\* The text matches a grammar from its first character to its last.
IsRepoName(s) == Len(s) >= 1 /\ NameEnd(s, 1) = Len(s)
IsTag(s) == Len(s) >= 1 /\ TagEnd(s, 1) = Len(s)
IsDigest(s) == Len(s) >= 1 /\ DigestEnd(s, 1) = Len(s)

\* The constructor was given explicit fields only, each valid by the
\* grammar: the port an int and only with a host, at most one of tag and
\* digest.
ValidExplicitFields(args) ==
    /\ IsNone(args.image_str)
    /\ IsNone(args.host) \/ IsHostName(args.host.v) \/ IsIPv6(args.host.v)
    /\ IsNone(args.port) \/ (args.port.k = "int" /\ ~IsNone(args.host))
    /\ ~IsNone(args.name) /\ IsRepoName(args.name.v)
    /\ IsNone(args.tag) \/ IsTag(args.tag.v)
    /\ IsNone(args.digest) \/ IsDigest(args.digest.v)
    /\ IsNone(args.tag) \/ IsNone(args.digest)

\* Two attribute values are the same: both None or the same text.
SameText(a, b) == a.k = b.k /\ (a.k = "str" => a.v = b.v)

\* Two ports are the same number, whether held as an int or as digits.
PortNumber(port) == IF port.k = "int" THEN port.v ELSE ParseInt(port.v)
SamePort(a, b) == PortNumber(a) = PortNumber(b)

\* C10: a reference built from valid explicit fields, formatted with str()
\* and parsed again, has the host, port, name, tag and digest it was built
\* with.
C10_ReferenceRoundTrip ==
    (call.op = "reparse" /\ ValidExplicitFields(call.args))
        => /\ Returned(ret)
           /\ SameText(ret.v.host, call.source.host)
           /\ SamePort(ret.v.port, call.source.port)
           /\ SameText(ret.v.name, call.source.name)
           /\ SameText(ret.v.tag, call.source.tag)
           /\ SameText(ret.v.digest, call.source.digest)

\* The constructor was called with a composite string and no explicit
\* field: the string is parsed.
ParseCall ==
    /\ call.op = "DockerImageReference"
    /\ ~IsNone(call.image_str)
    /\ IsNone(call.host) /\ IsNone(call.port) /\ IsNone(call.name)
    /\ IsNone(call.tag) /\ IsNone(call.digest)

\* The text is a repository, then ':' and a tag, then '@' and a digest, and
\* nothing more.
HasTagAndDigest(text) ==
    \E m \in {image_pattern_match(text)} :
        /\ m.k = "match"
        /\ ~IsNone(m.tag)
        /\ At(text, m.end + 1) = "@"
        /\ DigestEnd(text, m.end + 2) = Len(text)

\* C11 (as the specification states it): parsing a composite string that
\* has both a ':tag' and an '@digest' after the repository name never
\* yields a reference.
C11_TagAndDigestFails ==
    (ParseCall /\ HasTagAndDigest(call.image_str.v)) => ~Returned(ret)

\* The whole of the text matches the image grammar.
FullMatch(text) ==
    \E m \in {image_pattern_match(text)} : m.k = "match" /\ m.end = Len(text)

\* C12 (as the specification states it): parsing yields a reference only
\* when the whole string matches the image grammar, and a validation error
\* (ValueError) for every other string.
C12_FullMatchOrValidationError ==
    ParseCall =>
        IF FullMatch(call.image_str.v) THEN Returned(ret)
        ELSE Raised(ret, "ValueError")

\* C13 (as the specification states it): no reference the constructor
\* returns has both its tag and its digest set, however it was called.
C13_TagDigestExclusive ==
    (call.op \in {"DockerImageReference", "reparse"} /\ Returned(ret))
        => IsNone(ret.v.tag) \/ IsNone(ret.v.digest)

\* The duration of a relative expiration argument: the default when it is
\* absent, the seconds of an int below one year or of a timedelta.
IsRelative(expiration) ==
    \/ expiration.k \in {"None", "timedelta"}
    \/ expiration.k = "int" /\ expiration.v < 31536000
RelativeSeconds(expiration) ==
    IF expiration.k = "None" THEN DEFAULT_TOKEN_VALIDITY_PERIOD ELSE expiration.v

\* C14 (as the specification states it): for a relative expiration d the
\* token create_token returns has exp = iat + d, also when the clock
\* advances while the call runs.
C14_SingleClockReading ==
    (call.op = "create_token" /\ Returned(ret) /\ IsRelative(call.expiration))
        => ret.v.claims.v.exp.v
              = ret.v.claims.v.iat.v + RelativeSeconds(call.expiration)

====
